---- MODULE Spec2Model ----
(***************************************************************************)
(* A model of charts_app.py: the Streamlit stock dashboard.                *)
(*                                                                         *)
(* Python values are records tagged with their type.  Strings the code     *)
(* inspects character by character (the ticker, the snapshot's values, the *)
(* table cells) are sequences of one-character strings; strings the code   *)
(* only compares or passes on (the period label, the provider's tokens,    *)
(* exception texts) are TLA+ strings.  Numbers are exact decimals: a sign, *)
(* the decimal digits of the integer part and those of the fraction, so    *)
(* that a division by 1000, a multiplication by 100 and a rounding to n    *)
(* places act on the digits as they do in Python.  A double's binary       *)
(* rounding is not modelled: the numbers drawn as inputs have at most 15   *)
(* digits or are powers of ten a double holds exactly, and none is near a  *)
(* rounding tie, so the digits Python displays for them are the exact ones.*)
(***************************************************************************)
EXTENDS Integers, Sequences, FiniteSets, TLC

VARIABLES ticker, period, pc, info, history, out, calls, raised, propagated,
          call, result

vars == <<ticker, period, pc, info, history, out, calls, raised, propagated,
          call, result>>

-----------------------------------------------------------------------------
(* Characters and strings                                                  *)

DigitChars == <<"0", "1", "2", "3", "4", "5", "6", "7", "8", "9">>

Lowers == <<"a", "b", "c", "d", "e", "f", "g", "h", "i", "j", "k", "l", "m",
            "n", "o", "p", "q", "r", "s", "t", "u", "v", "w", "x", "y", "z">>

Uppers == <<"A", "B", "C", "D", "E", "F", "G", "H", "I", "J", "K", "L", "M",
            "N", "O", "P", "Q", "R", "S", "T", "U", "V", "W", "X", "Y", "Z">>

Whitespace == {" ", "\t", "\n"}

IsDigit(c) == \E i \in 1..10 : DigitChars[i] = c

DigitOf(c) == CHOOSE d \in 0..9 : DigitChars[d + 1] = c

DigitChar(d) == DigitChars[d + 1]

DigitsToStr(ds) == [i \in 1..Len(ds) |-> DigitChar(ds[i])]

StrToDigits(s) == [i \in 1..Len(s) |-> DigitOf(s[i])]

UpperChar(c) ==
    IF \E i \in 1..26 : Lowers[i] = c
    THEN Uppers[CHOOSE i \in 1..26 : Lowers[i] = c]
    ELSE c

LowerChar(c) ==
    IF \E i \in 1..26 : Uppers[i] = c
    THEN Lowers[CHOOSE i \in 1..26 : Uppers[i] = c]
    ELSE c

\* str.upper()
upper(s) == [i \in 1..Len(s) |-> UpperChar(s[i])]

\* str.capitalize(): the first character upper-cased, every other one lower-cased
capitalize(s) ==
    [i \in 1..Len(s) |-> IF i = 1 THEN UpperChar(s[i]) ELSE LowerChar(s[i])]

RECURSIVE LStrip(_)
LStrip(s) ==
    IF s # <<>> /\ Head(s) \in Whitespace THEN LStrip(Tail(s)) ELSE s

RECURSIVE RStrip(_)
RStrip(s) ==
    IF s # <<>> /\ s[Len(s)] \in Whitespace
    THEN RStrip(SubSeq(s, 1, Len(s) - 1))
    ELSE s

\* A check of the raw text, without strip()
NoStrip(s) == s

\* str.strip()
strip(s) == RStrip(LStrip(s))

\* s * n for a str s
Repeat(s, n) ==
    IF n <= 0 \/ s = <<>> THEN <<>>
    ELSE [i \in 1..(n * Len(s)) |-> s[((i - 1) % Len(s)) + 1]]

NA == <<"N", "/", "A">>

-----------------------------------------------------------------------------
(* Python values and the outcome of evaluating an expression               *)

None == [t |-> "NoneType"]

PyStr(s) == [t |-> "str", s |-> s]

PyInt(neg, ds) == [t |-> "int", neg |-> neg, ds |-> ds]

\* kind is "finite", "inf" or "nan"; ip and fp are the digits before and
\* after the decimal point, ip without leading and fp without trailing zeros
PyFloat(neg, ip, fp) ==
    [t |-> "float", kind |-> "finite", neg |-> neg, ip |-> ip, fp |-> fp]

PyInf(neg) ==
    [t |-> "float", kind |-> "inf", neg |-> neg, ip |-> <<>>, fp |-> <<>>]

PyNaN ==
    [t |-> "float", kind |-> "nan", neg |-> FALSE, ip |-> <<>>, fp |-> <<>>]

PyList == [t |-> "list"]

Ok(v) == [ok |-> TRUE, v |-> v]

Raise(cls, msg) == [ok |-> FALSE, exc |-> cls, msg |-> msg]

\* A double holds no finite value of more than this many integer digits
\* (sys.float_info.max is about 1.8e308)
FloatMaxDigits == 309

Zeros(n) == [i \in 1..n |-> 0]

IsZeroDigits(ds) == \A i \in 1..Len(ds) : ds[i] = 0

\* The digits from the first non-zero one on; <<0>> when there is none
TrimLeadingZeros(ds) ==
    IF IsZeroDigits(ds) THEN <<0>>
    ELSE SubSeq(ds,
                CHOOSE i \in 1..Len(ds) :
                    ds[i] # 0 /\ \A j \in 1..(i - 1) : ds[j] = 0,
                Len(ds))

\* The digits up to the last non-zero one; <<>> when there is none
TrimTrailingZeros(ds) ==
    IF IsZeroDigits(ds) THEN <<>>
    ELSE SubSeq(ds, 1,
                CHOOSE i \in 1..Len(ds) :
                    ds[i] # 0 /\ \A j \in (i + 1)..Len(ds) : ds[j] = 0)

\* float(i) for an int i
IntToFloat(i) ==
    IF Len(i.ds) > FloatMaxDigits
    THEN Raise("OverflowError", "int too large to convert to float")
    ELSE Ok(PyFloat(i.neg, i.ds, <<>>))

\* The digits before and after the point at position dot of num (dot is
\* Len(num) + 1 when there is none), or ValueError when they are not digits
ParseDigits(neg, num, dot, ndots) ==
    IF /\ ndots <= 1
       /\ Len(num) > ndots
       /\ \A i \in 1..Len(num) : i # dot => IsDigit(num[i])
    THEN Ok(PyFloat(neg,
                    TrimLeadingZeros(StrToDigits(SubSeq(num, 1, dot - 1))),
                    TrimTrailingZeros(StrToDigits(SubSeq(num, dot + 1, Len(num))))))
    ELSE Raise("ValueError", "could not convert string to float")

FirstDot(num) ==
    IF \E i \in 1..Len(num) : num[i] = "."
    THEN CHOOSE i \in 1..Len(num) : num[i] = "." /\ \A j \in 1..(i - 1) : num[j] # "."
    ELSE Len(num) + 1

ParseUnsigned(neg, num) ==
    ParseDigits(neg, num, FirstDot(num),
                Cardinality({i \in 1..Len(num) : num[i] = "."}))

ParseSigned(body) ==
    IF body # <<>> /\ Head(body) \in {"-", "+"}
    THEN ParseUnsigned(Head(body) = "-", Tail(body))
    ELSE ParseUnsigned(FALSE, body)

\* float(s) for a str s: optional whitespace around an optional sign and
\* decimal digits with at most one point among them (no exponent, no
\* underscore, no "inf" or "nan": the inputs hold none)
ParseFloat(s) == ParseSigned(strip(s))

\* float(value)
float(value) ==
    CASE value.t = "float" -> Ok(value)
      [] value.t = "int" -> IntToFloat(value)
      [] value.t = "str" -> ParseFloat(value.s)
      [] OTHER ->
           Raise("TypeError",
                 "float() argument must be a string or a real number")

IsNumber(value) == value.t \in {"int", "float"}

IntPart(x) == IF x.t = "int" THEN x.ds ELSE x.ip

FracPart(x) == IF x.t = "int" THEN <<>> ELSE x.fp

\* value >= 1000 for a number: false for a negative number and for nan
GE1000(x) ==
    IF x.t = "float" /\ x.kind = "nan" THEN FALSE
    ELSE IF x.t = "float" /\ x.kind = "inf" THEN ~x.neg
    ELSE ~x.neg /\ Len(IntPart(x)) >= 4

\* The float of the digits ds with the point moved three places to the left
ShiftRight3(neg, ds, n, fp) ==
    IF Len(TrimLeadingZeros(SubSeq(ds, 1, n - 3))) > FloatMaxDigits
    THEN Raise("OverflowError", "integer division result too large for a float")
    ELSE Ok(PyFloat(neg, TrimLeadingZeros(SubSeq(ds, 1, n - 3)),
                    TrimTrailingZeros(SubSeq(ds, n - 2, n) \o fp)))

\* value / 1000 (true division): the result is a float
TrueDiv1000(x) ==
    IF x.t = "float" /\ x.kind # "finite" THEN Ok(x)
    ELSE ShiftRight3(x.neg, Zeros(3) \o IntPart(x), Len(IntPart(x)) + 3, FracPart(x))

\* The float of the digits ip.fp with the point moved two places to the right
ShiftLeft2(neg, ip, fp) ==
    PyFloat(neg, TrimLeadingZeros(ip \o SubSeq(fp, 1, 2)),
            TrimTrailingZeros(SubSeq(fp, 3, Len(fp))))

\* value * 100
Mul100(value) ==
    CASE value.t = "NoneType" ->
           Raise("TypeError",
                 "unsupported operand type(s) for *: 'NoneType' and 'int'")
      [] value.t = "str" -> Ok(PyStr(Repeat(value.s, 100)))
      [] value.t = "int" ->
           Ok(PyInt(value.neg, TrimLeadingZeros(value.ds \o Zeros(2))))
      [] value.t = "float" ->
           IF value.kind # "finite" THEN Ok(value)
           ELSE Ok(ShiftLeft2(value.neg, value.ip, value.fp \o Zeros(2)))
      [] OTHER -> Ok(value)

\* ds + 1 on a digit sequence
\* The carry stops at digit m, the last one below 9
IncrAt(ds, m) ==
    [i \in 1..Len(ds) |-> IF i < m THEN ds[i] ELSE IF i = m THEN ds[i] + 1 ELSE 0]

Incr(ds) ==
    IF \A i \in 1..Len(ds) : ds[i] = 9 THEN <<1>> \o Zeros(Len(ds))
    ELSE IncrAt(ds, CHOOSE m \in 1..Len(ds) :
                        ds[m] # 9 /\ \A j \in (m + 1)..Len(ds) : ds[j] = 9)

\* The digits kept, rounded to the nearest on the digits dropped (next, then
\* rest), and to the even digit on a tie
RoundDigits(kept, next, rest) ==
    IF \/ next > 5
       \/ next = 5 /\ ~IsZeroDigits(rest)
       \/ next = 5 /\ IsZeroDigits(rest) /\ kept[Len(kept)] % 2 = 1
    THEN Incr(kept)
    ELSE kept

\* The digits ds written with the last n of them after a point
PlacePoint(ds, n) ==
    DigitsToStr(SubSeq(ds, 1, Len(ds) - n))
    \o (IF n > 0 THEN <<".">> ELSE <<>>)
    \o DigitsToStr(SubSeq(ds, Len(ds) - n + 1, Len(ds)))

FixedDigits(ip, fp, n) ==
    PlacePoint(RoundDigits(ip \o SubSeq(fp, 1, n), fp[n + 1],
                           SubSeq(fp, n + 2, Len(fp))), n)

\* "{:.nf}".format(x) for a float x
FormatFixed(x, n) ==
    IF x.kind = "nan" THEN <<"n", "a", "n">>
    ELSE IF x.kind = "inf"
    THEN (IF x.neg THEN <<"-">> ELSE <<>>) \o <<"i", "n", "f">>
    ELSE (IF x.neg THEN <<"-">> ELSE <<>>)
         \o FixedDigits(x.ip, x.fp \o Zeros(n + 1), n)

\* "{:.nf}".format(f.v) for the outcome f of a conversion to float
FormatOutcome(f, n) == IF f.ok THEN Ok(FormatFixed(f.v, n)) ELSE f

\* format(value, ".nf") for a number: an int is converted to a float first
FormatNumber(value, n) == FormatOutcome(float(value), n)

-----------------------------------------------------------------------------
(* The helper functions                                                    *)

suffixes == <<<<>>, <<"K">>, <<"M">>, <<"B">>, <<"T">>>>

\* One pass of the loop body, given the outcome q of value /= 1000
RECURSIVE format_value_loop(_, _)
LoopBody(q, suffix_index) ==
    IF q.ok THEN format_value_loop(q.v, suffix_index + 1) ELSE q

\* The while loop of format_value from the state (value, suffix_index):
\* the value and the index it ends with, or the exception a division raises
format_value_loop(value, suffix_index) ==
    IF GE1000(value) /\ suffix_index < Len(suffixes) - 1
    THEN LoopBody(TrueDiv1000(value), suffix_index)
    ELSE Ok([value |-> value, suffix_index |-> suffix_index])

\* f"${value:.1f}{suffixes[suffix_index]}", given the outcome of the format
Suffixed1(text, suffix_index) ==
    IF text.ok
    THEN Ok(PyStr(<<"$">> \o text.v \o suffixes[suffix_index + 1]))
    ELSE text

FormatEnd(end) ==
    IF end.ok
    THEN Suffixed1(FormatNumber(end.v.value, 1), end.v.suffix_index)
    ELSE end

format_value(value) ==
    IF value = None \/ ~IsNumber(value) THEN Ok(PyStr(NA))
    ELSE FormatEnd(format_value_loop(value, 0))

\* try: return format_str.format(float(value)), given the outcome f of
\* float(value); except (TypeError, ValueError): return "N/A"
TryFormat(f) ==
    IF f.ok THEN Ok(PyStr(FormatFixed(f.v, 2)))
    ELSE IF f.exc \in {"TypeError", "ValueError"} THEN Ok(PyStr(NA))
    ELSE f

\* safe_format(value) with the default format_str "{:.2f}"
safe_format(value) == TryFormat(float(value))

-----------------------------------------------------------------------------
(* The quote snapshot (stock.info), a dict from attribute name to value    *)

StringKeys == {"country", "sector", "industry", "recommendationKey"}

NumberKeys == {"marketCap", "enterpriseValue", "fullTimeEmployees",
               "currentPrice", "previousClose", "dayHigh", "dayLow",
               "fiftyTwoWeekHigh", "fiftyTwoWeekLow", "forwardEps",
               "forwardPE", "pegRatio", "dividendRate", "dividendYield"}

\* The keys the three tables read
TableKeys == StringKeys \cup NumberKeys

Keys == TableKeys \cup {"longName"}

Pow10(e) == PyInt(FALSE, <<1>> \o Zeros(e))

\* A snapshot as the provider returns it for a listed company
Typical ==
    [k \in Keys |->
        CASE k = "longName" -> PyStr(<<"A", "c", "m", "e">>)
          [] k = "country" -> PyStr(<<"U", "S">>)
          [] k = "sector" -> PyStr(<<"T", "e", "c", "h">>)
          [] k = "industry" -> PyStr(<<"C", "h", "i", "p", "s">>)
          [] k = "recommendationKey" -> PyStr(<<"b", "u", "y">>)
          [] k = "marketCap" -> PyInt(FALSE, <<1, 5, 0, 0, 0, 0, 0>>)
          [] k = "enterpriseValue" -> Pow10(15)
          [] k = "fullTimeEmployees" -> PyInt(FALSE, <<9, 9, 9>>)
          [] k = "previousClose" -> PyInt(FALSE, <<3>>)
          [] k = "forwardEps" -> PyFloat(TRUE, <<2>>, <<5>>)
          [] k = "dividendYield" -> PyFloat(FALSE, <<0>>, <<0, 0, 5, 2>>)
          [] OTHER -> PyFloat(FALSE, <<3>>, <<1, 4, 1, 5, 9>>)]

\* How many keys of a snapshot differ from the typical one
MaxDeviations == 1

Absent == [t |-> "absent"]

\* What a key of a snapshot may hold instead of its typical value: nothing
\* (the key is absent), null, or a value of another type; for a number also
\* one beyond the range of a double
Deviations(k) ==
    IF k = "longName" THEN {Absent, None}
    ELSE IF k \in StringKeys THEN {Absent, None, PyInt(FALSE, <<3>>)}
    ELSE {Absent, None, PyStr(<<"a", "b", "c">>), Pow10(400)}

RECURSIVE KeySetsUpTo(_)
KeySetsUpTo(n) ==
    IF n = 0 THEN {{}}
    ELSE LET S == KeySetsUpTo(n - 1)
         IN  S \cup {s \cup {k} : s \in S, k \in Keys}

Deviated(D, f) ==
    [k \in {x \in Keys : x \notin D \/ f[x] # Absent} |->
        IF k \in D THEN f[k] ELSE Typical[k]]

EmptySnapshot == [k \in {} |-> None]

\* The snapshots the provider may return: the typical one with up to
\* MaxDeviations keys changed, and the empty dict of an unknown ticker
Snapshots ==
    {EmptySnapshot} \cup
    UNION {{Deviated(D, f) : f \in {g \in [D -> UNION {Deviations(k) : k \in D}] :
                                       \A k \in D : g[k] \in Deviations(k)}} :
           D \in KeySetsUpTo(MaxDeviations)}

\* dict.get(key, default)
get(d, key, default) == IF key \in DOMAIN d THEN d[key] ELSE default

\* str(value), as an f-string applies it
str(value) ==
    CASE value.t = "str" -> value.s
      [] value.t = "NoneType" -> <<"N", "o", "n", "e">>
      [] value.t = "int" ->
           (IF value.neg THEN <<"-">> ELSE <<>>) \o DigitsToStr(value.ds)

-----------------------------------------------------------------------------
(* The tables                                                              *)

\* f"${r}" and f"{r}%" around a formatter's outcome
Prefixed(sym, r) == IF r.ok THEN Ok(PyStr(sym \o r.v.s)) ELSE r

Suffixed(r, sym) == IF r.ok THEN Ok(PyStr(r.v.s \o sym)) ELSE r

\* value.capitalize(): only a str has the method
Capitalized(value) ==
    IF value.t = "str" THEN Ok(PyStr(capitalize(value.s)))
    ELSE Raise("AttributeError",
               "'" \o value.t \o "' object has no attribute 'capitalize'")

\* safe_format(info.get('dividendYield', 0) * 100)
FormatProduct(m) == IF m.ok THEN safe_format(m.v) ELSE m

YieldPercent(d) ==
    FormatProduct(Mul100(get(d, "dividendYield", PyInt(FALSE, <<0>>))))

\* A list of (label, value) pairs is evaluated entry by entry: it is the
\* list of the values, or the exception of the first entry that raises
RECURSIVE Rows(_)
Cons(label, cell, rest) ==
    IF rest.ok THEN Ok(<<<<label, cell.v>>>> \o rest.v) ELSE rest

Rows(cells) ==
    IF cells = <<>> THEN Ok(<<>>)
    ELSE IF ~Head(cells)[2].ok THEN Head(cells)[2]
    ELSE Cons(Head(cells)[1], Head(cells)[2], Rows(Tail(cells)))

stock_info(d) ==
    Rows(<< <<"Country", Ok(get(d, "country", PyStr(NA)))>>,
            <<"Sector", Ok(get(d, "sector", PyStr(NA)))>>,
            <<"Industry", Ok(get(d, "industry", PyStr(NA)))>>,
            <<"Market Cap", format_value(get(d, "marketCap", None))>>,
            <<"Enterprise Value", format_value(get(d, "enterpriseValue", None))>>,
            <<"Employees", Ok(get(d, "fullTimeEmployees", PyStr(NA)))>> >>)

price_info(d) ==
    Rows(<< <<"Current Price",
              Prefixed(<<"$">>, safe_format(get(d, "currentPrice", None)))>>,
            <<"Previous Close",
              Prefixed(<<"$">>, safe_format(get(d, "previousClose", None)))>>,
            <<"Day High",
              Prefixed(<<"$">>, safe_format(get(d, "dayHigh", None)))>>,
            <<"Day Low",
              Prefixed(<<"$">>, safe_format(get(d, "dayLow", None)))>>,
            <<"52 Week High",
              Prefixed(<<"$">>, safe_format(get(d, "fiftyTwoWeekHigh", None)))>>,
            <<"52 Week Low",
              Prefixed(<<"$">>, safe_format(get(d, "fiftyTwoWeekLow", None)))>> >>)

biz_metrics(d) ==
    Rows(<< <<"EPS (FWD)", safe_format(get(d, "forwardEps", None))>>,
            <<"P/E (FWD)", safe_format(get(d, "forwardPE", None))>>,
            <<"PEG Ratio", safe_format(get(d, "pegRatio", None))>>,
            <<"Dividend Rate (FWD)",
              Prefixed(<<"$">>, safe_format(get(d, "dividendRate", None)))>>,
            <<"Dividend Yield (FWD)", Suffixed(YieldPercent(d), <<"%">>)>>,
            <<"Recommendation",
              Capitalized(get(d, "recommendationKey", PyStr(NA)))>> >>)

-----------------------------------------------------------------------------
(* The range resolver                                                      *)

interval_map ==
    [label \in {"1D", "5D", "1M", "6M", "YTD", "1Y", "5Y"} |->
        CASE label = "1D" -> <<"1d", "1h">>
          [] label = "5D" -> <<"5d", "1d">>
          [] label = "1M" -> <<"1mo", "1d">>
          [] label = "6M" -> <<"6mo", "1wk">>
          [] label = "YTD" -> <<"ytd", "1mo">>
          [] label = "1Y" -> <<"1y", "1mo">>
          [] label = "5Y" -> <<"5y", "3mo">>]

\* A lookup that falls back to the first entry of the table
resolveFirstEntry(label) == get(interval_map, label, <<"1d", "1h">>)

\* interval_map.get(period, ("1mo", "1d"))
resolve(label) == get(interval_map, label, <<"1mo", "1d">>)

-----------------------------------------------------------------------------
(* The page: what one run of the script renders                            *)

Error(text) == [kind |-> "error", text |-> text]

Subheader(text) == [kind |-> "subheader", text |-> text]

LineChart(data) == [kind |-> "line_chart", data |-> data]

Warning(text) == [kind |-> "warning", text |-> text]

Dataframe(column, rows) == [kind |-> "dataframe", column |-> column, rows |-> rows]

ValidationMessage == "Please provide a valid stock ticker."

NoDataNotice == "No historical data available for the selected period."

\* The provider's calls: stock.info and stock.history(period=, interval=)
InfoCall(t) == [op |-> "info", ticker |-> t]

HistoryCall(t, params) ==
    [op |-> "history", ticker |-> t, period |-> params[1], interval |-> params[2]]

\* The classes `except Exception` catches, among those that occur here
ExceptionClasses == {"TypeError", "ValueError", "OverflowError", "AttributeError",
                     "HTTPError", "ConnectionError"}

\* An except clause that names only the formatter's exceptions
handlerNarrow(o, e) ==
    IF e.exc \in {"TypeError", "ValueError"}
    THEN [out |-> Append(o, Error("An error occurred: " \o e.msg)),
          propagated |-> FALSE]
    ELSE [out |-> o, propagated |-> TRUE]

\* except Exception as e: st.error(f"An error occurred: {e}")
handler(o, e) ==
    IF e.exc \in ExceptionClasses
    THEN [out |-> Append(o, Error("An error occurred: " \o e.msg)),
          propagated |-> FALSE]
    ELSE [out |-> o, propagated |-> TRUE]

\* Each table is built and then rendered, in order; an exception while one is
\* built leaves the earlier ones rendered
RECURSIVE RenderTables(_, _)
RenderTables(o, tables) ==
    IF tables = <<>> THEN [out |-> o, exc |-> <<>>]
    ELSE IF Head(tables)[2].ok
    THEN RenderTables(Append(o, Dataframe(Head(tables)[1], Head(tables)[2].v)),
                      Tail(tables))
    ELSE [out |-> o, exc |-> <<Head(tables)[2]>>]

Tables(d) == << <<"Stock Info", stock_info(d)>>,
                <<"Price Info", price_info(d)>>,
                <<"Business Metrics", biz_metrics(d)>> >>

\* A chart drawn without the test for an empty frame
ChartAlways(series) == LineChart([i \in 1..Len(series) |-> series[i].Close])

\* if not history.empty: st.line_chart(history["Close"]) else: st.warning(...)
ChartOrNotice(series) ==
    IF series # <<>>
    THEN LineChart([i \in 1..Len(series) |-> series[i].Close])
    ELSE Warning(NoDataNotice)

-----------------------------------------------------------------------------
(* The inputs                                                              *)

Tickers == { <<>>, <<" ">>, <<" ", "\t">>,
             <<"A", "A", "P", "L">>, <<" ", "m", "s", "f", "t">> }

Periods == {"1D", "5D", "1M", "6M", "YTD", "1Y", "5Y"}

ProviderErrors == { Raise("HTTPError", "404 Client Error: Not Found"),
                    Raise("ConnectionError", "Read timed out.") }

PriceSeries == { <<>>, <<[Close |-> 101], [Close |-> 99]>> }

Unset == [t |-> "unset"]

NoCall == [fn |-> "none"]

-----------------------------------------------------------------------------
(* The script: every interaction with a widget reruns it                   *)

Init ==
    /\ ticker = <<"A", "A", "P", "L">>
    /\ period = "1M"
    /\ pc = "idle"
    /\ info = Unset
    /\ history = Unset
    /\ out = <<>>
    /\ calls = <<>>
    /\ raised = <<>>
    /\ propagated = FALSE
    /\ call = NoCall
    /\ result = NoCall

Blank ==
    /\ info' = Unset
    /\ history' = Unset
    /\ calls' = <<>>
    /\ raised' = <<>>
    /\ propagated' = FALSE

\* The text input changes: the script reruns with button = False
EditTicker(t) ==
    /\ pc \in {"idle", "done"}
    /\ t # ticker
    /\ ticker' = t
    /\ Blank
    /\ out' = <<>>
    /\ pc' = "idle"
    /\ UNCHANGED <<period, call, result>>

\* The selectbox changes: the script reruns with button = False
SelectPeriod(p) ==
    /\ pc \in {"idle", "done"}
    /\ p # period
    /\ period' = p
    /\ Blank
    /\ out' = <<>>
    /\ pc' = "idle"
    /\ UNCHANGED <<ticker, call, result>>

\* The button is clicked: the script reruns with button = True, up to the
\* snapshot call (stock.info)
Submit ==
    /\ pc \in {"idle", "done"}
    /\ info' = Unset
    /\ history' = Unset
    /\ raised' = <<>>
    /\ propagated' = FALSE
    /\ IF strip(ticker) = <<>>
       THEN /\ out' = <<Error(ValidationMessage)>>
            /\ calls' = <<>>
            /\ pc' = "done"
       ELSE /\ out' = <<>>
            /\ calls' = <<InfoCall(ticker)>>
            /\ pc' = "info"
    /\ UNCHANGED <<ticker, period, call, result>>

\* The run ends: the except clause, if an exception ended the try block
Caught(at, e, end) ==
    /\ raised' = Append(raised, [at |-> at, e |-> e])
    /\ out' = end.out
    /\ propagated' = end.propagated

Finish(shown) ==
    IF shown.exc = <<>>
    THEN out' = shown.out /\ UNCHANGED <<raised, propagated>>
    ELSE Caught("tables", shown.exc[1], handler(shown.out, shown.exc[1]))

\* stock.info returns: the header is shown and the history call is issued
InfoReturns(d) ==
    /\ pc = "info"
    /\ info' = d
    /\ out' = Append(out, Subheader(upper(ticker) \o <<" ", "-", " ">>
                                    \o str(get(d, "longName", PyStr(NA)))))
    /\ calls' = Append(calls, HistoryCall(ticker, resolve(period)))
    /\ pc' = "history"
    /\ UNCHANGED <<ticker, period, history, raised, propagated, call, result>>

\* A try block that ends before the history call: the failure of stock.info
\* is shown and the script goes on
InfoRaisesGoesOn(e) ==
    /\ pc = "info"
    /\ Caught("info", e, handler(out, e))
    /\ calls' = Append(calls, HistoryCall(ticker, resolve(period)))
    /\ pc' = "history"
    /\ UNCHANGED <<ticker, period, info, history, call, result>>

\* stock.info raises
InfoRaises(e) ==
    /\ pc = "info"
    /\ Caught("info", e, handler(out, e))
    /\ pc' = "done"
    /\ UNCHANGED <<ticker, period, info, history, calls, call, result>>

\* stock.history returns: the chart or the notice, then the three tables
HistoryReturns(series) ==
    /\ pc = "history"
    /\ history' = series
    /\ Finish(RenderTables(Append(out, ChartOrNotice(series)), Tables(info)))
    /\ pc' = "done"
    /\ UNCHANGED <<ticker, period, info, calls, call, result>>

\* stock.history raises
HistoryRaises(e) ==
    /\ pc = "history"
    /\ Caught("history", e, handler(out, e))
    /\ pc' = "done"
    /\ UNCHANGED <<ticker, period, info, history, calls, call, result>>

Next ==
    \/ \E t \in Tickers : EditTicker(t)
    \/ \E p \in Periods : SelectPeriod(p)
    \/ Submit
    \/ \E e \in ProviderErrors : InfoRaises(e)
    \/ \E d \in Snapshots : InfoReturns(d)
    \/ \E e \in ProviderErrors : HistoryRaises(e)
    \/ \E series \in PriceSeries : HistoryReturns(series)

Spec == Init /\ [][Next]_vars

-----------------------------------------------------------------------------
(* The helper functions and the range resolver called on their own         *)

\* How many groups of three digits an int argument has at most
MaxGroups == 5

Groups == { <<0, 0, 0>>, <<0, 0, 1>>, <<5, 0, 0>>, <<9, 9, 9>> }

RECURSIVE Flatten(_)
Flatten(gs) == IF gs = <<>> THEN <<>> ELSE Head(gs) \o Flatten(Tail(gs))

Magnitudes ==
    {TrimLeadingZeros(Flatten(gs)) :
        gs \in UNION {[1..n -> Groups] : n \in 1..MaxGroups}}

Ints ==
    {PyInt(FALSE, ds) : ds \in Magnitudes}
    \cup {PyInt(TRUE, ds) : ds \in Magnitudes \ {<<0>>}}

Floats == { PyFloat(FALSE, <<3>>, <<1, 4, 1, 5, 9>>),
            PyFloat(FALSE, <<1, 2, 3, 4>>, <<5, 6>>),
            PyFloat(TRUE, <<2>>, <<5>>),
            PyFloat(FALSE, <<0>>, <<0, 0, 5, 2>>),
            PyNaN, PyInf(FALSE), PyInf(TRUE) }

Strings == { <<>>, <<"a", "b", "c">>, <<"N", "/", "A">>,
             <<"3", ".", "1", "4", "1", "5", "9">>,
             <<" ", "-", "2", ".", "5", " ">>, <<"+", "7">>, <<".", "5">>,
             <<"5", ".">>, <<".">>, <<"-">>, <<"1", ".", "2", ".", "3">> }

\* Numbers beyond the range of a double
HugeInts == { Pow10(400), PyInt(TRUE, <<1>> \o Zeros(400)) }

Values ==
    {None, PyList, Pow10(15), Pow10(18)} \cup Ints \cup Floats \cup HugeInts
    \cup {PyStr(x) : x \in Strings}

Labels == Periods \cup {"", "2Y", "1d", "ytd", "1M "}

HelperCalls ==
    {[fn |-> "format_value", arg |-> v] : v \in Values}
    \cup {[fn |-> "safe_format", arg |-> v] : v \in Values \cup {Pow10(310)}}
    \cup {[fn |-> "resolve", arg |-> l] : l \in Labels}

InitHelpers ==
    /\ ticker = <<>>
    /\ period = ""
    /\ pc = "call"
    /\ info = Unset
    /\ history = Unset
    /\ out = <<>>
    /\ calls = <<>>
    /\ raised = <<>>
    /\ propagated = FALSE
    /\ call \in HelperCalls
    /\ result = NoCall

Returns(r) ==
    /\ pc = "call"
    /\ result' = r
    /\ pc' = "returned"
    /\ UNCHANGED <<ticker, period, info, history, out, calls, raised,
                   propagated, call>>

\* result.loop is the state the while loop ends in (for a number)
FormatValueReturns ==
    /\ call.fn = "format_value"
    /\ Returns([out |-> format_value(call.arg),
                loop |-> IF IsNumber(call.arg)
                         THEN format_value_loop(call.arg, 0)
                         ELSE Ok(None)])

SafeFormatReturns ==
    /\ call.fn = "safe_format"
    /\ Returns([out |-> safe_format(call.arg)])

ResolveReturns ==
    /\ call.fn = "resolve"
    /\ Returns([out |-> Ok(resolve(call.arg))])

NextHelpers ==
    \/ FormatValueReturns
    \/ SafeFormatReturns
    \/ ResolveReturns

\* The script and the helpers called on their own
SpecHelpers == (Init \/ InitHelpers) /\ [][Next \/ NextHelpers]_vars

-----------------------------------------------------------------------------
(* What is shown                                                           *)

Kinds(o) == [i \in 1..Len(o) |-> o[i].kind]

Shows(kind) == \E i \in 1..Len(out) : out[i].kind = kind

\* The messages st.error shows other than the validation message
GenericErrors == {i \in 1..Len(out) : out[i].kind = "error"
                                      /\ out[i].text # ValidationMessage}

ShowsValidation == \E i \in 1..Len(out) : out[i] = Error(ValidationMessage)

TablesShown == {i \in 1..Len(out) : out[i].kind = "dataframe"}

\* The (label, value) rows of the tables shown
RowsShown == UNION {{out[i].rows[j] : j \in 1..Len(out[i].rows)} : i \in TablesShown}

IsBlank(t) == \A i \in 1..Len(t) : t[i] \in Whitespace

BothFetched == pc = "done" /\ info # Unset /\ history # Unset

Contains(text, part) ==
    \E i \in 1..(Len(text) - Len(part) + 1) :
        SubSeq(text, i, i + Len(part) - 1) = part

\* The row each key of the snapshot is shown in
KeyLabel(k) ==
    CASE k = "country" -> "Country"
      [] k = "sector" -> "Sector"
      [] k = "industry" -> "Industry"
      [] k = "marketCap" -> "Market Cap"
      [] k = "enterpriseValue" -> "Enterprise Value"
      [] k = "fullTimeEmployees" -> "Employees"
      [] k = "currentPrice" -> "Current Price"
      [] k = "previousClose" -> "Previous Close"
      [] k = "dayHigh" -> "Day High"
      [] k = "dayLow" -> "Day Low"
      [] k = "fiftyTwoWeekHigh" -> "52 Week High"
      [] k = "fiftyTwoWeekLow" -> "52 Week Low"
      [] k = "forwardEps" -> "EPS (FWD)"
      [] k = "forwardPE" -> "P/E (FWD)"
      [] k = "pegRatio" -> "PEG Ratio"
      [] k = "dividendRate" -> "Dividend Rate (FWD)"
      [] k = "dividendYield" -> "Dividend Yield (FWD)"
      [] k = "recommendationKey" -> "Recommendation"

-----------------------------------------------------------------------------
(* C1: a submission whose ticker is empty or only whitespace issues no     *)
(* provider call, neither for the snapshot nor for the history, and shows  *)
(* the validation message and nothing else: no chart, no table, no generic *)
(* error message.                                                          *)
C1_BlankTickerRejected ==
    IsBlank(ticker) =>
        /\ calls = <<>>
        /\ pc \notin {"info", "history"}
        /\ pc = "done" => out = <<Error(ValidationMessage)>>

C1_Witness ==
    /\ pc = "done"
    /\ ticker = <<" ", "\t">>
    /\ ShowsValidation

(* C2: with a non-blank ticker, a failure raised by the snapshot fetch or  *)
(* by the history fetch is caught by the handler and shown as the generic  *)
(* error message with the error's text in it; no exception leaves the      *)
(* handler, and a finished submission has shown something.                 *)
C2_FetchFailureCaught ==
    /\ ~propagated
    /\ pc = "done" => out # <<>>
    /\ \A i \in 1..Len(raised) :
          raised[i].at \in {"info", "history"} =>
              /\ ~IsBlank(ticker)
              /\ pc = "done"
              /\ out[Len(out)]
                   = Error("An error occurred: " \o raised[i].e.msg)

C2_Witness ==
    /\ pc = "done"
    /\ raised # <<>>
    /\ raised[1].at = "history"
    /\ raised[1].e.msg = "Read timed out."
    /\ out[Len(out)] = Error("An error occurred: Read timed out.")

(* C3, as stated: when both fetches succeed and a key the tables read is   *)
(* absent from the snapshot, no error message is shown, all three tables   *)
(* are rendered and the row of that key displays "N/A" (a "$" or "%"       *)
(* around it is let pass).  The code violates it.                          *)
C3_AbsentKeyShowsNA ==
    BothFetched =>
        \A k \in TableKeys \ DOMAIN info :
            /\ GenericErrors = {}
            /\ Cardinality(TablesShown) = 3
            /\ \E row \in RowsShown :
                  /\ row[1] = KeyLabel(k)
                  /\ row[2].t = "str"
                  /\ Contains(row[2].s, NA)

(* C4, as stated: safe_format returns a string for every value and never   *)
(* lets an exception out: "N/A" when the value cannot be converted to a    *)
(* float, the number with two decimals otherwise.  The code violates it.   *)
C4_SafeFormatNeverRaises ==
    (pc = "returned" /\ call.fn = "safe_format") =>
        /\ result.out.ok
        /\ result.out.v.t = "str"
        /\ ~float(call.arg).ok => result.out.v.s = NA

(* C5: the range resolver returns the documented pair for each of the      *)
(* seven labels and ("1mo", "1d") for every other string, the empty one    *)
(* included, and never raises; the history fetch of a submission is issued *)
(* with the pair resolved from the label selected.                         *)
DocumentedPair(label) ==
    CASE label = "1D" -> <<"1d", "1h">>
      [] label = "5D" -> <<"5d", "1d">>
      [] label = "1M" -> <<"1mo", "1d">>
      [] label = "6M" -> <<"6mo", "1wk">>
      [] label = "YTD" -> <<"ytd", "1mo">>
      [] label = "1Y" -> <<"1y", "1mo">>
      [] label = "5Y" -> <<"5y", "3mo">>
      [] OTHER -> <<"1mo", "1d">>

C5_RangeResolved ==
    /\ (pc = "returned" /\ call.fn = "resolve") =>
          result.out = Ok(DocumentedPair(call.arg))
    /\ \A i \in 1..Len(calls) :
          calls[i].op = "history" =>
              <<calls[i].period, calls[i].interval>> = DocumentedPair(period)

C5_Witness ==
    /\ pc = "returned"
    /\ call = [fn |-> "resolve", arg |-> ""]
    /\ result.out = Ok(<<"1mo", "1d">>)

(* C6, as stated: for every number v, format_value ends having divided v   *)
(* by 1000 exactly k times, k the least index in 0..4 with v / 1000^k      *)
(* below 1000, or 4 when there is none, and writes the k-th suffix.  The   *)
(* code violates it.                                                       *)
BelowThousand(v, k) ==
    CASE v.t = "float" /\ v.kind = "nan" -> FALSE
      [] v.t = "float" /\ v.kind = "inf" -> v.neg
      [] OTHER -> v.neg \/ Len(IntPart(v)) <= 3 * (k + 1)

ClaimedIndex(v) ==
    IF \E k \in 0..4 : BelowThousand(v, k)
    THEN CHOOSE k \in 0..4 :
            BelowThousand(v, k) /\ \A j \in 0..(k - 1) : ~BelowThousand(v, j)
    ELSE 4

EndsWith(text, part) ==
    /\ Len(text) >= Len(part)
    /\ SubSeq(text, Len(text) - Len(part) + 1, Len(text)) = part

ScaledAsClaimed ==
    /\ result.loop.ok
    /\ result.loop.v.suffix_index = ClaimedIndex(call.arg)
    /\ result.out.ok
    /\ result.out.v.t = "str"
    /\ Head(result.out.v.s) = "$"
    /\ EndsWith(result.out.v.s, suffixes[ClaimedIndex(call.arg) + 1])
    /\ ClaimedIndex(call.arg) = 0 =>
          result.out.v.s[Len(result.out.v.s)] \notin {"K", "M", "B", "T"}

C6_FormatValueScaling ==
    (pc = "returned" /\ call.fn = "format_value" /\ IsNumber(call.arg)) =>
        ScaledAsClaimed

\* What does hold of format_value: the same, for every number that is not
\* nan and has at most FloatMaxDigits digits before the point, and the
\* documented examples
FormatValueScalingInRange ==
    (pc = "returned" /\ call.fn = "format_value") =>
        /\ (/\ IsNumber(call.arg)
            /\ ~(call.arg.t = "float" /\ call.arg.kind = "nan")
            /\ Len(IntPart(call.arg)) <= FloatMaxDigits) => ScaledAsClaimed
        /\ call.arg = PyInt(FALSE, <<9, 9, 9>>) =>
              result.out = Ok(PyStr(<<"$", "9", "9", "9", ".", "0">>))
        /\ call.arg = PyInt(FALSE, <<1, 0, 0, 0>>) =>
              result.out = Ok(PyStr(<<"$", "1", ".", "0", "K">>))
        /\ call.arg = PyInt(FALSE, <<1, 5, 0, 0, 0, 0, 0>>) =>
              result.out = Ok(PyStr(<<"$", "1", ".", "5", "M">>))
        /\ call.arg = Pow10(15) =>
              result.out = Ok(PyStr(<<"$", "1", "0", "0", "0", ".", "0", "T">>))
        /\ call.arg = PyInt(TRUE, <<5, 0, 0>>) =>
              result.out = Ok(PyStr(<<"$", "-", "5", "0", "0", ".", "0">>))

(* C7: when both fetches succeed, the chart is rendered exactly when the   *)
(* price series is not empty and the "no data" notice exactly when it is   *)
(* empty; an empty series is no error: an error message shown with it      *)
(* comes from building a table, and when no table fails the three tables   *)
(* follow the notice.                                                      *)
C7_ChartOrNotice ==
    (pc = "done" /\ history # Unset) =>
        /\ Shows("line_chart") <=> history # <<>>
        /\ Shows("warning") <=> history = <<>>
        /\ history = <<>> =>
              /\ \A i \in 1..Len(raised) : raised[i].at = "tables"
              /\ GenericErrors # {} => raised # <<>>
              /\ raised = <<>> =>
                    Kinds(out) = <<"subheader", "warning", "dataframe",
                                   "dataframe", "dataframe">>

C7_Witness ==
    /\ pc = "done"
    /\ history = <<>>
    /\ out[2] = Warning(NoDataNotice)
    /\ Cardinality(TablesShown) = 3
    /\ GenericErrors = {}

(* C8, as stated: the value of every row of every rendered table is a      *)
(* string, never null and never a raw number, whatever the snapshot holds. *)
(* The code violates it.                                                   *)
C8_RowValuesAreStrings ==
    \A row \in RowsShown : row[2].t = "str"

(* C9: in one submission the provider is called at most once for the       *)
(* snapshot and at most once for the history, the snapshot first; after a  *)
(* failed call no further call is issued (after a failed snapshot call no  *)
(* history call); a new submit starts from a blank state.                  *)
C9_OneCallEach ==
    /\ [](/\ Len(calls) <= 2
          /\ Len(calls) >= 1 => calls[1] = InfoCall(ticker)
          /\ Len(calls) = 2 => calls[2].op = "history"
          /\ \A i \in 1..Len(raised) :
                /\ raised[i].at = "info" => Len(calls) = 1
                /\ raised[i].at = "history" => Len(calls) = 2
          /\ Len(raised) <= 1)
    /\ [][/\ (raised # <<>> /\ raised' # <<>>) => calls' = calls
          /\ (pc \in {"idle", "done"} /\ pc' = "info") =>
                /\ calls' = <<InfoCall(ticker)>>
                /\ out' = <<>>
                /\ raised' = <<>>
                /\ info' = Unset
                /\ history' = Unset]_vars

C9_Witness ==
    /\ pc = "done"
    /\ raised # <<>>
    /\ raised[1].at = "info"
    /\ calls = <<InfoCall(ticker)>>

(* C10, as stated: a submission that ends with the error message shows     *)
(* exactly one error message and none of its own header, chart, notice or  *)
(* tables beside it.  The code violates it.                                *)
C10_NoPartialResult ==
    (pc = "done" /\ GenericErrors # {}) =>
        /\ Cardinality(GenericErrors) = 1
        /\ Len(out) = 1

====
